---- MODULE Spec2Model ----
(***************************************************************************)
(* A model of the patch-dataset bookkeeping of hrdl:                       *)
(*   src/src/data_stuff/NEW_patch_dataset.py   (PatchDataset)              *)
(*   src/src/callback_stuff/PatientLevelValidation.py                      *)
(*   src/make_ROC_1outneuron.py                                            *)
(*                                                                         *)
(* Strings are sequences of one-character strings, so that ",".join,       *)
(* str.split(",") and list(str) are computed character by character.       *)
(* A Python dict is a sequence of [k, v] records in insertion order.       *)
(* None is the empty tuple; a score is a non-empty tuple of integers.      *)
(***************************************************************************)
EXTENDS Integers, Sequences, FiniteSets, TLC

\* ------------------------------------------------------------------ bounds
MaxPatches == 4
MaxGroupSize == 2
MaxTrainPatches == 2
MaxValPatches == 6
MaxBatch == 2
MaxEpochs == 1
MaxCallLen == 2
MaxEvalPatches == 5
MaxSingles == 2
MaxGroups == 2
MaxCheckpoints == 2
MaxDownPatches == 4

\* ----------------------------------------------------------------- strings
None == <<>>

Range(s) == {s[i] : i \in 1..Len(s)}

NoDup(s) == \A i, j \in 1..Len(s) : i # j => s[i] # s[j]

RECURSIVE StrJoin(_, _)
StrJoin(sep, parts) ==
    IF Len(parts) = 0 THEN <<>>
    ELSE IF Len(parts) = 1 THEN parts[1]
    ELSE parts[1] \o sep \o StrJoin(sep, Tail(parts))

RECURSIVE SplitFrom(_, _, _)
SplitFrom(s, sep, cur) ==
    IF Len(s) = 0 THEN <<cur>>
    ELSE IF Head(s) = sep THEN <<cur>> \o SplitFrom(Tail(s), sep, <<>>)
    ELSE SplitFrom(Tail(s), sep, Append(cur, Head(s)))

StrSplit(s, sep) == SplitFrom(s, sep, <<>>)

CharList(s) == [i \in 1..Len(s) |-> <<s[i]>>]

PathJoin(parts) == StrJoin(<<"/">>, parts)

RECURSIVE Flatten(_)
Flatten(ss) == IF Len(ss) = 0 THEN <<>> ELSE Head(ss) \o Flatten(Tail(ss))

RECURSIVE SumSeq(_)
SumSeq(s) == IF Len(s) = 0 THEN 0 ELSE Head(s) + SumSeq(Tail(s))

\* ------------------------------------------------------------------- dicts
DictKeys(d) == [i \in 1..Len(d) |-> d[i].k]

DictHas(d, key) == \E i \in 1..Len(d) : d[i].k = key

DictGet(d, key) == d[CHOOSE i \in 1..Len(d) : d[i].k = key].v

DictSet(d, key, val) ==
    IF DictHas(d, key)
    THEN [i \in 1..Len(d) |-> IF d[i].k = key THEN [k |-> key, v |-> val] ELSE d[i]]
    ELSE Append(d, [k |-> key, v |-> val])

\* ------------------------------------------------------------- file system
DataDir == <<"/">>
TrainDir == DataDir \o <<"t", "r", "a", "i", "n">>
ValDir == DataDir \o <<"v", "a", "l">>

ClassNames == {<<"d">>, <<"f">>}
FolderNames == <<<<"a">>, <<"b">>>>

Digits == <<"0", "1", "2", "3", "4", "5", "6", "7", "8", "9">>

RECURSIVE PlainName(_)
PlainName(i) ==
    IF i < 10 THEN <<Digits[i + 1]>>
    ELSE Append(PlainName(i \div 10), Digits[(i % 10) + 1])

\* The i-th patch file of a folder; in a comma layout the second one has a
\* comma in its name.
PatchName(i) == IF i = 2 THEN <<"2", ",", "x">> ELSE PlainName(i)

Folder(name, n, comma) ==
    [name |-> name,
     patches |-> [i \in 1..n |-> IF comma THEN PatchName(i) ELSE PlainName(i)]]

\* The listings of one class folder: image folders in a fixed listing order,
\* each with 0..MaxPatches patches.
FolderListings(comma) ==
    {<<>>}
    \cup {<<Folder(FolderNames[j], n, comma)>> : j \in 1..2, n \in 0..MaxPatches}
    \cup {<<Folder(FolderNames[1], n, comma), Folder(FolderNames[2], m, FALSE)>> :
            n \in 0..MaxPatches, m \in 0..MaxPatches}

ClassOrders == {cs \in UNION {[1..k -> ClassNames] : k \in 0..2} : NoDup(cs)}

Trees(comma) ==
    UNION {{[i \in 1..Len(cs) |-> [name |-> cs[i], folders |-> fl[i]]] :
              fl \in [1..Len(cs) -> FolderListings(comma)]} : cs \in ClassOrders}

ListDir(tree) == [i \in 1..Len(tree) |-> tree[i].name]

Entry(tree, name) == tree[CHOOSE i \in 1..Len(tree) : tree[i].name = name]

\* ------------------------------------------------------------ PatchDataset
patch_paths_of(root_dir, class_name, fld) ==
    [i \in 1..Len(fld.patches) |->
        PathJoin(<<root_dir, class_name, fld.name, fld.patches[i]>>)]

make_class_to_idx(classes_list) ==
    [i \in 1..Len(classes_list) |-> [k |-> classes_list[i], v |-> i - 1]]

RECURSIVE add_folders(_, _, _, _, _)
add_folders(dataset_dict, root_dir, class_name, folders, label) ==
    IF Len(folders) = 0 THEN dataset_dict
    ELSE add_folders(
            DictSet(dataset_dict, Head(folders).name,
                    <<patch_paths_of(root_dir, class_name, Head(folders)), label>>),
            root_dir, class_name, Tail(folders), label)

RECURSIVE add_classes(_, _, _, _, _)
add_classes(dataset_dict, root_dir, tree, classes_list, class_to_idx) ==
    IF Len(classes_list) = 0 THEN dataset_dict
    ELSE add_classes(
            add_folders(dataset_dict, root_dir, Head(classes_list),
                        Entry(tree, Head(classes_list)).folders,
                        DictGet(class_to_idx, Head(classes_list))),
            root_dir, tree, Tail(classes_list), class_to_idx)

make_dataset(root_dir, tree) ==
    LET classes_list == ListDir(tree)
        class_to_idx == make_class_to_idx(classes_list)
    IN  <<add_classes(<<>>, root_dir, tree, classes_list, class_to_idx), class_to_idx>>

\* A slip that forgets the padded trailing group.
zip_whole_groups(patches_list, g) ==
    [b \in 1..(Len(patches_list) \div g) - 1 |->
        [j \in 1..g |-> patches_list[(b - 1) * g + j]]]

\* zip_longest(*(iter(patches_list),) * g): consecutive g-tuples, the last
\* one padded with None.
zip_longest_groups(patches_list, g) ==
    LET n == Len(patches_list)
        m == (n + g - 1) \div g
    IN  [b \in 1..m |->
            [j \in 1..g |->
                IF (b - 1) * g + j <= n THEN patches_list[(b - 1) * g + j] ELSE None]]

\* A slip that looks at the first slot only.
keep_group_first(image_list) == Len(image_list) > 0 => image_list[1] # None

keep_group(image_list) == \A j \in 1..Len(image_list) : image_list[j] # None

RECURSIVE samples_of_groups(_, _, _)
samples_of_groups(image_id, grouped_list, label) ==
    IF Len(grouped_list) = 0 THEN <<>>
    ELSE (IF keep_group(Head(grouped_list))
          THEN <<<<image_id, StrJoin(<<",">>, Head(grouped_list)), label>>>>
          ELSE <<>>)
         \o samples_of_groups(image_id, Tail(grouped_list), label)

RECURSIVE group_dataset(_, _)
group_dataset(dataset_dict, g) ==
    IF Len(dataset_dict) = 0 THEN <<>>
    ELSE LET image_id == Head(dataset_dict).k
             patches_list == Head(dataset_dict).v[1]
             label == Head(dataset_dict).v[2]
         IN  samples_of_groups(image_id, zip_longest_groups(patches_list, g), label)
             \o group_dataset(Tail(dataset_dict), g)

dataset_len(grouped) == Len(grouped)

\* The dataset object PatchDataset.__init__ builds.
PatchDataset(root, listing, g) ==
    LET md == make_dataset(root, listing)
    IN  [samples |-> md[1], class_to_idx |-> md[2],
         grouped_samples |-> group_dataset(md[1], g)]

RECURSIVE none_entries(_, _)
none_entries(inner, paths) ==
    IF Len(paths) = 0 THEN inner
    ELSE none_entries(DictSet(inner, Head(paths), None), Tail(paths))

RECURSIVE fresh_score_dict(_, _)
fresh_score_dict(d, smp) ==
    IF Len(smp) = 0 THEN d
    ELSE fresh_score_dict(
            DictSet(d, Head(smp).k, none_entries(<<>>, Head(smp).v[1])), Tail(smp))

\* ------------------------------------------------------------- object heap
\* Score dicts are objects: the heap maps a reference to the dict it holds.
FreshRef(h) == CHOOSE r \in 1..(Cardinality(DOMAIN h) + 1) : r \notin DOMAIN h

\* A slip that hands out one cached dict.
get_cached_score_dict(h, smp) ==
    IF DOMAIN h = {}
    THEN [heap |-> (1 :> fresh_score_dict(<<>>, smp)), ref |-> 1]
    ELSE [heap |-> h, ref |-> CHOOSE r \in DOMAIN h : \A q \in DOMAIN h : r <= q]

get_img_samples_score_dict(h, smp) ==
    [heap |-> h @@ (FreshRef(h) :> fresh_score_dict(<<>>, smp)), ref |-> FreshRef(h)]

get_samples_dict(ds) == ds.samples

\* ------------------------------------------------------------------- state
VARIABLES tree, root_dir, group_size, samples, class_to_idx, grouped_samples, pc,
          dm, cb, heap, trainer, log, call, since, ev, mr, dd

varsData == <<tree, root_dir, group_size, samples, class_to_idx, grouped_samples, pc>>
varsTrain == <<dm, cb, trainer, log, call, since>>
vars == <<varsData, varsTrain, heap, ev, mr, dd>>

NoData ==
    /\ tree = <<>>
    /\ root_dir = <<>>
    /\ group_size = 1
    /\ samples = <<>>
    /\ class_to_idx = <<>>
    /\ grouped_samples = <<>>
    /\ pc = "off"

\* log and call hold what the last handler logged and passed to update_dicts.
NoCall == [ok |-> FALSE]

NoTrain ==
    /\ dm = <<>>
    /\ cb = <<>>
    /\ trainer = [phase |-> "off"]
    /\ log = <<>>
    /\ call = NoCall
    /\ since = <<>>

NoEval == ev = [pc |-> "off"]

NoMain == mr = [pc |-> "off"]

NoDown == dd = [pc |-> "off"]

\* PatchDataset.__init__ before its two calls.
Init ==
    /\ \E comma \in BOOLEAN : tree \in Trees(comma)
    /\ root_dir \in {TrainDir, ValDir}
    /\ group_size \in 1..MaxGroupSize
    /\ samples = <<>>
    /\ class_to_idx = <<>>
    /\ grouped_samples = <<>>
    /\ pc = "new"
    /\ heap = <<>>
    /\ NoTrain
    /\ NoEval
    /\ NoMain
    /\ NoDown

MakeDataset ==
    /\ pc = "new"
    /\ samples' = make_dataset(root_dir, tree)[1]
    /\ class_to_idx' = make_dataset(root_dir, tree)[2]
    /\ pc' = "made"
    /\ UNCHANGED <<tree, root_dir, group_size, grouped_samples, varsTrain, heap, ev, mr, dd>>

GroupDataset ==
    /\ pc = "made"
    /\ grouped_samples' = group_dataset(samples, group_size)
    /\ pc' = "ready"
    /\ UNCHANGED <<tree, root_dir, group_size, samples, class_to_idx, varsTrain, heap, ev, mr, dd>>

Next == MakeDataset \/ GroupDataset

Spec == Init /\ [][Next]_vars

\* -------------------------------------------------- PatientLevelValidation
NumClasses == 2
NumSanityValSteps == 2

\* What a model may put out for one row: one logit per class.
ScoreVals == {<<3, 0>>, <<0, 1>>}

repeat_interleave(s, g) == [i \in 1..(Len(s) * g) |-> s[((i - 1) \div g) + 1]]

\* "separate patch groups" of on_train_batch_end / on_validation_batch_end.
separate_groups(g, img_id, img_paths, y, batch_outputs) ==
    IF g > 1
    THEN [ids |-> repeat_interleave(img_id, g),
          paths |-> Flatten([i \in 1..Len(img_paths) |-> StrSplit(img_paths[i], ",")]),
          scores |-> repeat_interleave(batch_outputs, g),
          targets |-> repeat_interleave(y, g)]
    ELSE IF g = 1
    THEN [ids |-> img_id, paths |-> CharList(img_paths[1]),
          scores |-> batch_outputs, targets |-> y]
    ELSE [ids |-> img_id, paths |-> img_paths, scores |-> batch_outputs, targets |-> y]

\* A slip that leaves earlier scores of the image behind a fresh inner dict.
set_score_alone(d, img_id, patch_path, patch_score) ==
    DictSet(d, img_id, <<[k |-> patch_path, v |-> patch_score]>>)

\* img_samples_score_dict[img_id][patch_path] = patch_score
set_score(d, img_id, patch_path, patch_score) ==
    DictSet(d, img_id, DictSet(DictGet(d, img_id), patch_path, patch_score))

\* The zip loop; a missing img_id is a KeyError (ok = FALSE).
RECURSIVE fill(_, _, _, _)
fill(d, ids, paths, scores) ==
    IF Len(ids) = 0 \/ Len(paths) = 0 \/ Len(scores) = 0 THEN [d |-> d, ok |-> TRUE]
    ELSE IF ~DictHas(d, Head(ids)) THEN [d |-> d, ok |-> FALSE]
    ELSE fill(set_score(d, Head(ids), Head(paths), Head(scores)),
              Tail(ids), Tail(paths), Tail(scores))

lengths_ok(ids, paths, scores, targets) ==
    Len(paths) = Len(scores) /\ Len(scores) = Len(targets) /\ Len(ids) = Len(paths)

update_dicts(d, ids, paths, scores, targets) ==
    IF ~lengths_ok(ids, paths, scores, targets) THEN [d |-> d, ok |-> FALSE]
    ELSE fill(d, ids, paths, scores)

\* ---- score_dict
RECURSIVE non_none(_)
non_none(inner) ==
    IF Len(inner) = 0 THEN <<>>
    ELSE (IF Head(inner).v # None THEN <<Head(inner).v>> ELSE <<>>) \o non_none(Tail(inner))

\* A slip that keeps the last patch only.
last_only(vs) == vs[Len(vs)]

\* torch.sum(img_yhat, dim=0)
vec_sum(vs) == [c \in 1..Len(vs[1]) |-> SumSeq([i \in 1..Len(vs) |-> vs[i][c]])]

\* torch.argmax of one row: the first maximal index (0-based).
argmax_first(v) ==
    (CHOOSE c \in 1..Len(v) :
        (\A e \in 1..Len(v) : v[c] >= v[e]) /\ (\A e \in 1..(c - 1) : v[e] < v[c])) - 1

\* The classes torchmetrics may take as top-1 of a row: a maximal one.
top1_set(v) == {c - 1 : c \in {c \in 1..Len(v) : \A e \in 1..Len(v) : v[c] >= v[e]}}

count_of(votes, c) == Cardinality({i \in 1..Len(votes) : votes[i] = c})

\* torch.mode(...).values : a most frequent value.
mode_set(votes) ==
    {c \in Range(votes) : \A e \in Range(votes) : count_of(votes, c) >= count_of(votes, e)}

scorable(score_d, samples_dict) ==
    /\ Len(samples_dict) > 0
    /\ \A i \in 1..Len(samples_dict) :
          /\ DictHas(score_d, samples_dict[i].k)
          /\ Len(non_none(DictGet(score_d, samples_dict[i].k))) > 0

hit(pred, y) == IF pred = y THEN 1 ELSE 0

\* The pairs <<rawsum hits, majority hits>> the images of samples_dict can give.
RECURSIVE hits_set(_, _)
hits_set(score_d, samples_dict) ==
    IF Len(samples_dict) = 0 THEN {<<0, 0>>}
    ELSE LET img_y == Head(samples_dict).v[2]
             img_yhat == non_none(DictGet(score_d, Head(samples_dict).k))
             rawsum == top1_set(vec_sum(img_yhat))
             votes == [i \in 1..Len(img_yhat) |-> argmax_first(img_yhat[i])]
             majority == mode_set(votes)
         IN  {<<h[1] + hit(r, img_y), h[2] + hit(m, img_y)>> :
                h \in hits_set(score_d, Tail(samples_dict)), r \in rawsum, m \in majority}

\* The accuracies score_dict may return, each as <<hits, images>>.
score_dict(score_d, samples_dict) ==
    {[rawsum_acc |-> <<h[1], Len(samples_dict)>>,
      majority_vote_acc |-> <<h[2], Len(samples_dict)>>] :
        h \in hits_set(score_d, samples_dict)}

\* ---- the trainer and the callback
TrainTrees ==
    {<<[name |-> <<"d">>, folders |-> <<Folder(FolderNames[1], n, FALSE)>>]>> :
        n \in 0..MaxTrainPatches}

ValTrees ==
    {<<[name |-> <<"d">>, folders |-> <<Folder(FolderNames[1], n, comma)>>],
       [name |-> <<"f">>, folders |-> <<Folder(FolderNames[2], 2, FALSE)>>]>> :
        n \in 0..MaxValPatches, comma \in BOOLEAN}

InitTrain ==
    /\ NoData
    /\ NoEval
    /\ NoMain
    /\ NoDown
    /\ heap = <<>>
    /\ \E bs \in 1..MaxBatch, g \in 1..MaxGroupSize, tt \in TrainTrees, vt \in ValTrees :
          dm = [batch_size |-> bs, group_size |-> g, train_tree |-> tt, val_tree |-> vt,
                train_ds |-> <<>>, val_ds |-> <<>>]
    /\ cb = <<>>
    /\ \E per_patch \in BOOLEAN :
          trainer = [phase |-> "setup", sanity_checking |-> FALSE, epoch |-> 0,
                     left |-> {}, steps |-> 0, last |-> "none", per_patch |-> per_patch]
    /\ log = <<>>
    /\ call = NoCall
    /\ since = [train |-> {}, val |-> {}]

\* PatchDataModule.setup, then PatientLevelValidation.setup; the sanity check
\* of the validation loop comes next.
Setup ==
    /\ trainer.phase = "setup"
    /\ LET train_ds == PatchDataset(TrainDir, dm.train_tree, dm.group_size)
           val_ds == PatchDataset(ValDir, dm.val_tree, dm.group_size)
           a == get_img_samples_score_dict(heap, get_samples_dict(train_ds))
           b == get_img_samples_score_dict(a.heap, get_samples_dict(val_ds))
       IN  /\ dm' = [dm EXCEPT !.train_ds = train_ds, !.val_ds = val_ds]
           /\ cb' = [group_size |-> dm.group_size,
                     train_samples_dict |-> get_samples_dict(train_ds),
                     val_samples_dict |-> get_samples_dict(val_ds),
                     train_img_samples_score_dict |-> a.ref,
                     val_img_samples_score_dict |-> b.ref]
           /\ heap' = b.heap
           /\ trainer' = [trainer EXCEPT !.phase = "sanity", !.sanity_checking = TRUE,
                                         !.left = 1..Len(val_ds.grouped_samples),
                                         !.last = "setup"]
    /\ UNCHANGED <<varsData, ev, mr, dd, log, call, since>>

\* The rows a model returns for a batch of bags: one per bag, or one per
\* patch (MyResNet.training_step views x as bs * group_size images).
OutputRows(bs) == IF trainer.per_patch THEN bs * dm.group_size ELSE bs

SeqOfSet(S) ==
    LET RECURSIVE srt(_)
        srt(T) == IF T = {} THEN <<>>
                  ELSE LET m == CHOOSE x \in T : \A y \in T : x <= y
                       IN  <<m>> \o srt(T \ {m})
    IN  srt(S)

\* The ghost of the scores written since the last on_validation_epoch_end.
Overwrite(S, ids, paths, scores) ==
    {t \in S : ~\E k \in 1..Len(ids) : ids[k] = t[1] /\ paths[k] = t[2]}
    \cup {<<ids[k], paths[k], scores[k]>> : k \in
            {k \in 1..Len(ids) : ~\E j \in (k + 1)..Len(ids) :
                                    ids[j] = ids[k] /\ paths[j] = paths[k]}}

\* One batch end of either loop: ds is the dataset, ref the dict to fill.
BatchEnd(ds, ref, which, B, outputs) ==
    LET idx == SeqOfSet(B)
        img_id == [i \in 1..Len(idx) |-> ds.grouped_samples[idx[i]][1]]
        img_paths == [i \in 1..Len(idx) |-> ds.grouped_samples[idx[i]][2]]
        y == [i \in 1..Len(idx) |-> ds.grouped_samples[idx[i]][3]]
        sep == separate_groups(cb.group_size, img_id, img_paths, y, outputs)
        res == update_dicts(heap[ref], sep.ids, sep.paths, sep.scores, sep.targets)
    IN  /\ heap' = [heap EXCEPT ![ref] = res.d]
        /\ call' = [ref |-> ref, ids |-> sep.ids, paths |-> sep.paths,
                    scores |-> sep.scores, targets |-> sep.targets, ok |-> res.ok]
        /\ since' = IF res.ok
                    THEN [since EXCEPT ![which] = Overwrite(@, sep.ids, sep.paths, sep.scores)]
                    ELSE since
        /\ trainer' = IF res.ok
                      THEN [trainer EXCEPT !.left = @ \ B, !.steps = @ + 1, !.last = which]
                      ELSE [trainer EXCEPT !.phase = "crashed", !.last = which]
        /\ log' = <<>>
        /\ UNCHANGED <<varsData, ev, mr, dd, dm, cb>>

on_train_batch_end ==
    /\ trainer.phase = "train"
    /\ \E B \in SUBSET trainer.left :
          /\ Cardinality(B) = dm.batch_size
          /\ \E outputs \in [1..OutputRows(dm.batch_size) -> ScoreVals] :
                BatchEnd(dm.train_ds, cb.train_img_samples_score_dict, "train", B, outputs)

on_validation_batch_end ==
    /\ trainer.phase \in {"sanity", "val"}
    /\ trainer.phase = "sanity" => trainer.steps < NumSanityValSteps
    /\ \E B \in SUBSET trainer.left :
          /\ Cardinality(B) = dm.batch_size
          /\ \E outputs \in [1..OutputRows(dm.batch_size) -> ScoreVals] :
                BatchEnd(dm.val_ds, cb.val_img_samples_score_dict, "val", B, outputs)

\* The training loop has no full batch left (drop_last): validation starts.
TrainLoopDone ==
    /\ trainer.phase = "train"
    /\ Cardinality(trainer.left) < dm.batch_size
    /\ trainer' = [trainer EXCEPT !.phase = "val", !.steps = 0, !.last = "train_done",
                                  !.left = 1..Len(dm.val_ds.grouped_samples)]
    /\ log' = <<>>
    /\ call' = NoCall
    /\ UNCHANGED <<varsData, ev, mr, dd, dm, cb, heap, since>>

ValLoopOver ==
    /\ trainer.phase \in {"sanity", "val"}
    /\ \/ Cardinality(trainer.left) < dm.batch_size
       \/ trainer.phase = "sanity" /\ trainer.steps >= NumSanityValSteps

\* A slip that refreshes the train dict only.
RefreshTrainOnly ==
    LET a == get_img_samples_score_dict(heap, get_samples_dict(dm.train_ds))
    IN  /\ cb' = [cb EXCEPT !.train_samples_dict = get_samples_dict(dm.train_ds),
                            !.val_samples_dict = get_samples_dict(dm.val_ds),
                            !.train_img_samples_score_dict = a.ref]
        /\ heap' = [r \in {a.ref, cb.val_img_samples_score_dict} |-> a.heap[r]]
        /\ since' = [train |-> {}, val |-> {}]
        /\ trainer' =
             IF trainer.sanity_checking
             THEN [trainer EXCEPT !.phase = "train", !.sanity_checking = FALSE,
                                  !.epoch = 1, !.steps = 0, !.last = "epoch_end",
                                  !.left = 1..Len(dm.train_ds.grouped_samples)]
             ELSE IF trainer.epoch < MaxEpochs
             THEN [trainer EXCEPT !.phase = "train", !.epoch = @ + 1, !.steps = 0,
                                  !.last = "epoch_end",
                                  !.left = 1..Len(dm.train_ds.grouped_samples)]
             ELSE [trainer EXCEPT !.phase = "done", !.last = "epoch_end"]

\* "refresh dicts": both score dicts are replaced; the old ones are garbage.
Refresh ==
    LET a == get_img_samples_score_dict(heap, get_samples_dict(dm.train_ds))
        b == get_img_samples_score_dict(a.heap, get_samples_dict(dm.val_ds))
    IN  /\ cb' = [cb EXCEPT !.train_samples_dict = get_samples_dict(dm.train_ds),
                            !.val_samples_dict = get_samples_dict(dm.val_ds),
                            !.train_img_samples_score_dict = a.ref,
                            !.val_img_samples_score_dict = b.ref]
        /\ heap' = [r \in {a.ref, b.ref} |-> b.heap[r]]
        /\ since' = [train |-> {}, val |-> {}]
        /\ trainer' =
             IF trainer.sanity_checking
             THEN [trainer EXCEPT !.phase = "train", !.sanity_checking = FALSE,
                                  !.epoch = 1, !.steps = 0, !.last = "epoch_end",
                                  !.left = 1..Len(dm.train_ds.grouped_samples)]
             ELSE IF trainer.epoch < MaxEpochs
             THEN [trainer EXCEPT !.phase = "train", !.epoch = @ + 1, !.steps = 0,
                                  !.last = "epoch_end",
                                  !.left = 1..Len(dm.train_ds.grouped_samples)]
             ELSE [trainer EXCEPT !.phase = "done", !.last = "epoch_end"]

on_validation_epoch_end ==
    /\ ValLoopOver
    /\ IF trainer.sanity_checking
       THEN Refresh /\ log' = <<>>
       ELSE IF /\ scorable(heap[cb.train_img_samples_score_dict], cb.train_samples_dict)
               /\ scorable(heap[cb.val_img_samples_score_dict], cb.val_samples_dict)
            THEN /\ \E t \in score_dict(heap[cb.train_img_samples_score_dict],
                                          cb.train_samples_dict),
                       v \in score_dict(heap[cb.val_img_samples_score_dict],
                                          cb.val_samples_dict) :
                        log' = [train_rawsum_acc |-> t.rawsum_acc,
                                train_majority_vote_acc |-> t.majority_vote_acc,
                                val_rawsum_acc |-> v.rawsum_acc,
                                val_majority_vote_acc |-> v.majority_vote_acc]
                 /\ Refresh
            ELSE \* torch.stack of an empty list: the handler does not return
                 /\ trainer' = [trainer EXCEPT !.phase = "crashed", !.last = "score_dict"]
                 /\ log' = <<>>
                 /\ UNCHANGED <<cb, heap, since>>
    /\ call' = NoCall
    /\ UNCHANGED <<varsData, ev, mr, dd, dm>>

NextTrain ==
    \/ Setup
    \/ on_train_batch_end
    \/ on_validation_batch_end
    \/ TrainLoopDone
    \/ on_validation_epoch_end

SpecTrain == InitTrain /\ [][NextTrain]_vars

\* ---------------------------------------------- update_dicts, called alone
\* PatientLevelValidation after setup, with both score dicts either fresh
\* or filled by earlier batches, and one call of update_dicts on either.
UpdTrainTree == <<[name |-> <<"d">>, folders |-> <<Folder(FolderNames[1], 1, FALSE)>>]>>

UpdValTree ==
    <<[name |-> <<"d">>, folders |-> <<Folder(FolderNames[1], 2, FALSE)>>],
      [name |-> <<"f">>, folders |-> <<Folder(FolderNames[2], 1, FALSE)>>]>>

Filled(d, score) ==
    [i \in 1..Len(d) |->
        [k |-> d[i].k, v |-> [j \in 1..Len(d[i].v) |-> [k |-> d[i].v[j].k, v |-> score]]]]

InitUpdate ==
    /\ NoData
    /\ NoEval
    /\ NoMain
    /\ NoDown
    /\ log = <<>>
    /\ call = NoCall
    /\ since = [train |-> {}, val |-> {}]
    /\ trainer = [phase |-> "call", last |-> "setup"]
    /\ LET train_ds == PatchDataset(TrainDir, UpdTrainTree, 1)
           val_ds == PatchDataset(ValDir, UpdValTree, 1)
           a == get_img_samples_score_dict(<<>>, get_samples_dict(train_ds))
           b == get_img_samples_score_dict(a.heap, get_samples_dict(val_ds))
       IN  /\ dm = [batch_size |-> 1, group_size |-> 1, train_tree |-> UpdTrainTree,
                    val_tree |-> UpdValTree, train_ds |-> train_ds, val_ds |-> val_ds]
           /\ cb = [group_size |-> 1,
                    train_samples_dict |-> get_samples_dict(train_ds),
                    val_samples_dict |-> get_samples_dict(val_ds),
                    train_img_samples_score_dict |-> a.ref,
                    val_img_samples_score_dict |-> b.ref]
           /\ \E ft, fv \in {None} \cup ScoreVals :
                 heap = [r \in {a.ref, b.ref} |->
                            IF r = a.ref THEN Filled(b.heap[r], ft) ELSE Filled(b.heap[r], fv)]

KnownPaths(d) == UNION {{d[i].v[j].k : j \in 1..Len(d[i].v)} : i \in 1..Len(d)}

SeqsUpTo(S, n) == UNION {[1..m -> S] : m \in 0..n}

update_dicts_call ==
    /\ trainer.phase = "call"
    /\ \E ref \in {cb.train_img_samples_score_dict, cb.val_img_samples_score_dict} :
       \E batch_img_ids \in SeqsUpTo(Range(DictKeys(heap[ref])), MaxCallLen) :
       \E batch_paths \in SeqsUpTo(KnownPaths(heap[ref]) \cup {<<"/">>}, MaxCallLen) :
       \E batch_scores \in [1..Len(batch_img_ids) -> ScoreVals] :
          LET batch_targets == [i \in 1..Len(batch_img_ids) |-> 0]
              res == update_dicts(heap[ref], batch_img_ids, batch_paths, batch_scores,
                                  batch_targets)
          IN  /\ heap' = [heap EXCEPT ![ref] = res.d]
              /\ call' = [ref |-> ref, ids |-> batch_img_ids, paths |-> batch_paths,
                          scores |-> batch_scores, targets |-> batch_targets,
                          ok |-> res.ok]
              /\ trainer' = [phase |-> IF res.ok THEN "called" ELSE "crashed",
                             last |-> "update_dicts"]
    /\ UNCHANGED <<varsData, ev, mr, dd, dm, cb, log, since>>

NextUpdate == update_dicts_call

SpecUpdate == InitUpdate /\ [][NextUpdate]_vars

\* ------------------------------------------- make_ROC_1outneuron: one group
\* The checkpoint loop of make_roc_main over a datamodule that is set up:
\* for each checkpoint a fresh score dict, get_preds over the validation
\* loader, fill_dict, and the two ROC calls.  Numbers are in thousandths.

\* torch.sigmoid, elementwise, rounded to thousandths.
Sigmoid1(x) ==
    CASE x = 0 - 2000 -> 119
      [] x = 2000 -> 881
      [] x = 119 -> 530
      [] x = 881 -> 707

\* A slip that passes the scores on as they are.
raw_scores(v) == v

sigmoid(v) == [c \in 1..Len(v) |-> Sigmoid1(v[c])]

\* The logits of the network for one row, low or high: MyResNet has one per
\* class, the heads with one output neuron have one.
Logits(kind, high) ==
    IF kind = "MyResNet"
    THEN (IF high THEN <<0 - 2000, 2000>> ELSE <<2000, 0 - 2000>>)
    ELSE (IF high THEN <<2000>> ELSE <<0 - 2000>>)

\* A checkpoint is the function it computes on the samples of the dataset:
\* low up to some sample, high after it.
Checkpoints(kind, N) ==
    {[s \in 1..N |-> Logits(kind, s > t)] : t \in 0..N}

\* MyResNet views the batch as bs * group_size patches; a head gives one row
\* per bag.
ModelRows(kind, bs, g) == IF kind = "MyResNet" THEN bs * g ELSE bs

\* model.get_preds(batch): the forward pass on the rows of batch B, and in
\* MyResNet.get_preds a sigmoid after it.
model_get_preds(kind, g, model, B) ==
    LET rows == ModelRows(kind, Len(B), g)
        out == [r \in 1..rows |-> model[B[((r - 1) \div (rows \div Len(B))) + 1]]]
    IN  IF kind = "MyResNet" THEN [r \in 1..rows |-> sigmoid(out[r])] ELSE out

\* One turn of the loop of get_preds over batch B of the loader.
get_preds_batch(ds, g, kind, B, model) ==
    LET img_id == [i \in 1..Len(B) |-> ds.grouped_samples[B[i]][1]]
        img_paths == [i \in 1..Len(B) |-> ds.grouped_samples[B[i]][2]]
        y_gt == [i \in 1..Len(B) |-> ds.grouped_samples[B[i]][3]]
        preds == model_get_preds(kind, g, model, B)
    IN  IF g > 1
        THEN [preds |-> repeat_interleave(preds, g),
              y_gt |-> repeat_interleave(y_gt, g),
              img_ids |-> repeat_interleave(img_id, g),
              img_paths |-> Flatten([i \in 1..Len(img_paths) |->
                                        StrSplit(img_paths[i], ",")])]
        ELSE [preds |-> preds, y_gt |-> y_gt, img_ids |-> img_id,
              img_paths |-> CharList(img_paths[1])]

\* get_preds: the loader shuffles and drops the last short batch; torch.stack
\* of no rows raises (ok = FALSE).  A tensor of one number is kept as <<x>>,
\* so squeeze(-1) shows only in the shape.
RECURSIVE get_preds_from(_, _, _, _, _, _, _)
get_preds_from(ds, g, kind, bs, order, model, b) ==
    IF b * bs > Len(order)
    THEN [preds |-> <<>>, y_gt |-> <<>>, img_ids |-> <<>>, img_paths |-> <<>>]
    ELSE LET one == get_preds_batch(ds, g, kind,
                        SubSeq(order, (b - 1) * bs + 1, b * bs), model)
             rest == get_preds_from(ds, g, kind, bs, order, model, b + 1)
         IN  [preds |-> one.preds \o rest.preds, y_gt |-> one.y_gt \o rest.y_gt,
              img_ids |-> one.img_ids \o rest.img_ids,
              img_paths |-> one.img_paths \o rest.img_paths]

get_preds(ds, g, kind, bs, order, model) ==
    LET all == get_preds_from(ds, g, kind, bs, order, model, 1)
    IN  [ok |-> Len(all.preds) > 0 /\ Len(all.y_gt) > 0,
         preds |-> all.preds, y_gt |-> all.y_gt,
         img_ids |-> all.img_ids, img_paths |-> all.img_paths]

\* fill_dict: the zip loop alone, no length check.
fill_dict(d, preds, img_ids, img_paths) == fill(d, img_ids, img_paths, preds)

\* ROC(pos_label=1)(preds, y_gt) takes one target per prediction.
get_roc_sample_level(preds, y_gt) == [ok |-> Len(preds) = Len(y_gt)]

\* torch.mean(all_img_scores_sigmoided, axis=0) as the sum over the count.
torch_mean(vs) == [sum |-> vec_sum(vs), n |-> Len(vs)]

\* The loop of get_roc_image_level: what it hands to ROC.  torch.stack of no
\* score raises and leaves all_img_scores unbound (ok = FALSE).
RECURSIVE image_level_lists(_, _, _)
image_level_lists(score_d, samples_dict_gt, k) ==
    IF k > Len(score_d) THEN [ok |-> TRUE, preds |-> <<>>, y_gt |-> <<>>]
    ELSE LET img_id == score_d[k].k
             all_img_scores == non_none(score_d[k].v)
         IN  IF Len(all_img_scores) = 0 \/ ~DictHas(samples_dict_gt, img_id)
             THEN [ok |-> FALSE, preds |-> <<>>, y_gt |-> <<>>]
             ELSE LET all_img_scores_sigmoided ==
                          [j \in 1..Len(all_img_scores) |-> sigmoid(all_img_scores[j])]
                      rest == image_level_lists(score_d, samples_dict_gt, k + 1)
                  IN  [ok |-> rest.ok,
                       preds |-> <<torch_mean(all_img_scores_sigmoided)>>
                                 \o rest.preds,
                       y_gt |-> <<DictGet(samples_dict_gt, img_id)[2]>> \o rest.y_gt]

\* The curve is the metric library's; the record keeps what goes into it.
get_roc_image_level(img_samples_score_dict, samples_dict_gt) ==
    image_level_lists(img_samples_score_dict, samples_dict_gt, 1)

Perms(n) == {f \in [1..n -> 1..n] : \A i, j \in 1..n : f[i] = f[j] => i = j}

ModelKinds == {"MyResNet", "head"}

EvalTrainTree == <<[name |-> <<"d">>, folders |-> <<Folder(FolderNames[1], 0, FALSE)>>]>>

\* Two image folders, the second with the patches of one bag.
EvalValTrees(g) ==
    {<<[name |-> <<"d">>, folders |-> <<Folder(FolderNames[1], n, FALSE)>>],
       [name |-> <<"f">>, folders |-> <<Folder(FolderNames[2], g, FALSE)>>]>> :
        n \in 0..MaxEvalPatches}

\* main evaluates MyResNet on the datamodule of group size 1 and the heads
\* on the grouped one.
InitEval ==
    /\ NoData
    /\ NoMain
    /\ NoDown
    /\ heap = <<>>
    /\ \E bs \in 1..MaxBatch, g \in 1..MaxGroupSize :
       \E vt \in EvalValTrees(g) :
          /\ dm = [batch_size |-> bs, group_size |-> g,
                   train_tree |-> EvalTrainTree, val_tree |-> vt,
                   train_ds |-> PatchDataset(TrainDir, EvalTrainTree, g),
                   val_ds |-> PatchDataset(ValDir, vt, g)]
          /\ g = 1 => dataset_len(dm.val_ds.grouped_samples) <= MaxSingles
    /\ cb = <<>>
    /\ trainer = [phase |-> "off"]
    /\ log = <<>>
    /\ call = NoCall
    /\ since = <<>>
    /\ \E kind \in ModelKinds, n \in 1..MaxCheckpoints :
          /\ kind = "MyResNet" <=> dm.group_size = 1
          /\ ev = [pc |-> "next", kind |-> kind, models |-> n, i |-> 0, cur |-> 0,
                   val_samples_gt_dict |-> <<>>, record |-> <<>>]

\* make_roc_main, lines 377-378.
get_dicts ==
    /\ ev.pc = "next"
    /\ LET a == get_img_samples_score_dict(heap, dm.val_ds.samples)
       IN  /\ heap' = a.heap
           /\ ev' = [ev EXCEPT !.pc = "dicts", !.cur = a.ref,
                               !.val_samples_gt_dict = get_samples_dict(dm.val_ds)]
    /\ UNCHANGED <<varsData, varsTrain, mr, dd>>

\* make_roc_main, lines 386-413, for checkpoint i.  The record keeps the dict
\* and the image-level lists; the sample-level tensors are not kept.
evaluate ==
    /\ ev.pc = "dicts"
    /\ LET ds == dm.val_ds
           g == dm.group_size
           bs == dm.batch_size
           N == dataset_len(ds.grouped_samples)
       IN  \E order \in Perms(N), model \in Checkpoints(ev.kind, N) :
              LET gp == get_preds(ds, g, ev.kind, bs, order, model)
                  filled == fill_dict(heap[ev.cur], gp.preds, gp.img_ids, gp.img_paths).d
                  sample == get_roc_sample_level(gp.preds, gp.y_gt)
                  img == get_roc_image_level(filled, ev.val_samples_gt_dict)
              IN  IF ~gp.ok
                  THEN /\ ev' = [ev EXCEPT !.pc = "crashed"]
                       /\ heap' = heap
                  ELSE /\ heap' = [heap EXCEPT ![ev.cur] = filled]
                       /\ IF sample.ok /\ img.ok
                          THEN ev' = [ev EXCEPT
                                  !.pc = IF ev.i + 1 = ev.models THEN "done" ELSE "next",
                                  !.i = ev.i + 1,
                                  !.record = Append(@,
                                      [val_img_samples_score_dict |-> ev.cur,
                                       img_preds |-> img.preds, img_y_gt |-> img.y_gt])]
                          ELSE ev' = [ev EXCEPT !.pc = "crashed"]
    /\ UNCHANGED <<varsData, varsTrain, mr, dd>>

NextEval ==
    \/ get_dicts
    \/ evaluate

SpecEval == InitEval /\ [][NextEval]_vars

\* ------------------------------------------------------------ make_roc_main
\* models is a list of checkpoint groups, model_names their names, dms their
\* PatchDataModules.  A checkpoint is known by its place <<group, index>>,
\* a datamodule by its place in dms; curves and their averages are kept as
\* the terms numpy and the metric library are asked for.
GridPoints == 100

ModelNames == {"Resnet", "Downstream_MOCO"}

\* def setup(self, stage) of PatchDataModule, and the call dm.setup().
setup_params == <<"stage">>
setup_call_args == <<>>

call_binds(params, args) == Len(args) = Len(params)

linspace(lo, hi, num) == [op |-> "linspace", lo |-> lo, hi |-> hi, num |-> num]

np_interp(x, fpr, tpr) == [op |-> "interp", x |-> x, fpr |-> fpr, tpr |-> tpr]

interp_all(x, fprs, tprs) ==
    [j \in 1..(IF Len(fprs) < Len(tprs) THEN Len(fprs) ELSE Len(tprs)) |->
        np_interp(x, fprs[j], tprs[j])]

\* np.mean and np.std over the list, along axis 0; of no element they are nan.
np_mean(xs) == [op |-> "mean", of |-> xs]
np_std(xs) == [op |-> "std", of |-> xs]

\* What the metric library returns for checkpoint c at one level.
roc_of(level, c) ==
    [fpr |-> [curve |-> "fpr", level |-> level, of |-> c],
     tpr |-> [curve |-> "tpr", level |-> level, of |-> c],
     auc |-> [curve |-> "auc", level |-> level, of |-> c]]

Min3(a, b, c) == CHOOSE m \in {a, b, c} : m <= a /\ m <= b /\ m <= c

\* zip(models, model_names, dms) ends with its shortest argument.
zip_len(models, model_names, dms) == Min3(Len(models), Len(model_names), Len(dms))

InitMain ==
    /\ NoData
    /\ NoDown
    /\ NoTrain
    /\ NoEval
    /\ heap = <<>>
    /\ \E nm, nn, nd \in 0..MaxGroups :
       \E models \in [1..nm -> 0..MaxCheckpoints],
          model_names \in [1..nn -> ModelNames],
          dms \in [1..nd -> 1..MaxGroupSize] :
          mr = [pc |-> "start", models |-> models, model_names |-> model_names,
                dms |-> dms, k |-> 0, i |-> 0, record_dict |-> <<>>,
                all_sample |-> <<>>, all_img |-> <<>>,
                setups |-> <<>>, evaluated |-> <<>>]

\* assert len(models) == len(model_names)
main_assert ==
    /\ mr.pc = "start"
    /\ mr' = [mr EXCEPT !.pc = IF Len(mr.models) = Len(mr.model_names)
                                THEN "zip" ELSE "AssertionError"]
    /\ UNCHANGED <<varsData, varsTrain, heap, ev, dd>>

\* The head of the body of the zip loop: a new record and empty lists.
begin_group ==
    /\ mr.pc = "zip"
    /\ mr.k < zip_len(mr.models, mr.model_names, mr.dms)
    /\ mr' = [mr EXCEPT !.pc = "models", !.k = mr.k + 1, !.i = 0,
                        !.record_dict = DictSet(@, mr.model_names[mr.k + 1], <<>>),
                        !.all_sample = <<>>, !.all_img = <<>>]
    /\ UNCHANGED <<varsData, varsTrain, heap, ev, dd>>

\* One turn of the loop over the checkpoints of the group: dm.prepare_data(),
\* dm.setup(), and behind them the evaluation of the checkpoint.
eval_checkpoint ==
    /\ mr.pc = "models"
    /\ mr.i < mr.models[mr.k]
    /\ LET model_name == mr.model_names[mr.k]
           c == <<mr.k, mr.i>>
           sample == roc_of("sample", c)
           img == roc_of("img", c)
           rec == DictSet(DictSet(DictSet(DictSet(
                      DictGet(mr.record_dict, model_name),
                      <<"model">>, c),
                      <<"num_models">>, mr.models[mr.k]),
                      <<"sample", mr.i>>, sample),
                      <<"img", mr.i>>, img)
       IN  IF ~call_binds(setup_params, setup_call_args)
           THEN mr' = [mr EXCEPT !.pc = "TypeError"]
           ELSE mr' = [mr EXCEPT !.i = mr.i + 1,
                          !.setups = Append(@, mr.dms[mr.k]),
                          !.evaluated = Append(@, [model |-> c, name |-> model_name,
                                                   dm |-> mr.k]),
                          !.record_dict = DictSet(@, model_name, rec),
                          !.all_sample = Append(@, sample),
                          !.all_img = Append(@, img)]
    /\ UNCHANGED <<varsData, varsTrain, heap, ev, dd>>

averages_of(rec, level, all, interp_space) ==
    LET fprs == [j \in 1..Len(all) |-> all[j].fpr]
        tprs == [j \in 1..Len(all) |-> all[j].tpr]
        aucs == [j \in 1..Len(all) |-> all[j].auc]
        all_interp_tpr == interp_all(interp_space, fprs, tprs)
    IN  DictSet(DictSet(DictSet(DictSet(DictSet(rec,
            <<"all_interp_tpr", level>>, all_interp_tpr),
            <<"avg_interp_tpr", level>>, np_mean(all_interp_tpr)),
            <<"avg_auc", level>>, np_mean(aucs)),
            <<"std_auc", level>>, np_std(aucs)),
            <<"std_tpr", level>>, np_std(all_interp_tpr))

\* After the checkpoints of the group: interpolate and average.
finish_group ==
    /\ mr.pc = "models"
    /\ mr.i = mr.models[mr.k]
    /\ LET model_name == mr.model_names[mr.k]
           interp_space == linspace(0, 1, GridPoints)
           rec == DictSet(
                    averages_of(
                      averages_of(DictGet(mr.record_dict, model_name),
                                  "sample", mr.all_sample, interp_space),
                      "img", mr.all_img, interp_space),
                    <<"interp_space">>, interp_space)
       IN  mr' = [mr EXCEPT !.pc = "zip", !.record_dict = DictSet(@, model_name, rec)]
    /\ UNCHANGED <<varsData, varsTrain, heap, ev, dd>>

\* The two plots; what they draw is not kept.
make_plots ==
    /\ mr.pc = "zip"
    /\ mr.k >= zip_len(mr.models, mr.model_names, mr.dms)
    /\ mr' = [mr EXCEPT !.pc = "returned"]
    /\ UNCHANGED <<varsData, varsTrain, heap, ev, dd>>

NextMain ==
    \/ main_assert
    \/ begin_group
    \/ eval_checkpoint
    \/ finish_group
    \/ make_plots

SpecMain == InitMain /\ [][NextMain]_vars

\* ----------------------------------------------- DownstreamTrainingDataset
S_train == <<"t", "r", "a", "i", "n">>
S_val == <<"v", "a", "l">>
S_dog == <<"d", "o", "g">>
S_fish == <<"f", "i", "s", "h">>
S_img == <<"i", "m", "g">>
S_jpg == <<".", "j", "p", "g">>

classes == <<S_dog, S_fish>>

class_idx(class_label) == IF class_label = S_dog THEN 0 ELSE 1

train_dir(root) == root \o S_train

val_dir(root) == root \o S_val

\* ---- the regular expression
\* An alternative is a literal followed, when plus is not empty, by one or
\* more characters of the class plus.
Lit(s) == [lit |-> s, plus |-> {}]

\* r'train|val|img[\d{1}]+|/fish/|/dog/': inside the brackets the braces
\* and the 1 are members of the class.
ultimate_re ==
    <<Lit(S_train), Lit(S_val),
      [lit |-> S_img, plus |-> Range(Digits) \cup {"{", "}"}],
      Lit(<<"/">> \o S_fish \o <<"/">>), Lit(<<"/">> \o S_dog \o <<"/">>)>>

RECURSIVE RunLen(_, _, _)
RunLen(s, i, chars) ==
    IF i <= Len(s) /\ s[i] \in chars THEN 1 + RunLen(s, i + 1, chars) ELSE 0

\* The length of the match of one alternative at position i; 0 when it does
\* not match there.
MatchLen(alt, s, i) ==
    LET n == Len(alt.lit)
    IN  IF i + n - 1 <= Len(s) /\ SubSeq(s, i, i + n - 1) = alt.lit
        THEN IF alt.plus = {} THEN n
             ELSE LET r == RunLen(s, i + n, alt.plus)
                  IN  IF r = 0 THEN 0 ELSE n + r
        ELSE 0

\* The first alternative that matches at i wins.
RECURSIVE FirstMatch(_, _, _)
FirstMatch(re, s, i) ==
    IF Len(re) = 0 THEN 0
    ELSE IF MatchLen(Head(re), s, i) > 0 THEN MatchLen(Head(re), s, i)
    ELSE FirstMatch(Tail(re), s, i)

\* re.findall: the non-overlapping matches from left to right.
RECURSIVE FindFrom(_, _, _)
FindFrom(re, s, i) ==
    IF i > Len(s) THEN <<>>
    ELSE LET n == FirstMatch(re, s, i)
         IN  IF n > 0
             THEN <<SubSeq(s, i, i + n - 1)>> \o FindFrom(re, s, i + n)
             ELSE FindFrom(re, s, i + 1)

findall(re, s) == FindFrom(re, s, 1)

\* ---- the files
glob_jpg(dir, class_label, names) ==
    [i \in 1..Len(names) |-> dir \o <<"/">> \o class_label \o <<"/">> \o names[i]]

get_train_sample_filenames(root, files) ==
    glob_jpg(train_dir(root), S_fish, files.train_fish)
    \o glob_jpg(train_dir(root), S_dog, files.train_dog)

get_val_sample_filenames(root, files) ==
    glob_jpg(val_dir(root), S_fish, files.val_fish)
    \o glob_jpg(val_dir(root), S_dog, files.val_dog)

get_all_file_paths(root, files) ==
    get_train_sample_filenames(root, files) \o get_val_sample_filenames(root, files)

\* ---- make_dataset_dict
get_set_class_patientid(path) ==
    LET matches == findall(ultimate_re, path)
    IN  [ok |-> Len(matches) = 3, matches |-> matches]

str_remove(s, ch) == SelectSeq(s, LAMBDA c : c # ch)

empty_data_dict ==
    LET per_class == <<[k |-> S_dog, v |-> <<>>], [k |-> S_fish, v |-> <<>>]>>
    IN  <<[k |-> S_train, v |-> per_class], [k |-> S_val, v |-> per_class]>>

\* One turn of the loop: err names the exception that ends it.
file_path(data_dict, path) ==
    LET r == get_set_class_patientid(path)
    IN  IF ~r.ok THEN [err |-> "AssertionError", d |-> data_dict]
        ELSE LET data_set == r.matches[1]
                 data_class == str_remove(r.matches[2], "/")
                 patient_id == r.matches[3]
             IN  IF ~DictHas(data_dict, data_set)
                    \/ ~DictHas(DictGet(data_dict, data_set), data_class)
                 THEN [err |-> "KeyError", d |-> data_dict]
                 ELSE LET of_set == DictGet(data_dict, data_set)
                          of_class == DictGet(of_set, data_class)
                          paths == IF DictHas(of_class, patient_id)
                                   THEN Append(DictGet(of_class, patient_id), path)
                                   ELSE <<path>>
                      IN  [err |-> "",
                           d |-> DictSet(data_dict, data_set,
                                    DictSet(of_set, data_class,
                                        DictSet(of_class, patient_id, paths)))]

RECURSIVE make_dict_from(_, _)
make_dict_from(data_dict, paths) ==
    IF Len(paths) = 0 THEN [err |-> "", d |-> data_dict]
    ELSE LET r == file_path(data_dict, Head(paths))
         IN  IF r.err # "" THEN r ELSE make_dict_from(r.d, Tail(paths))

\* ---- __create_index_mapping__
\* random.sample(l, len(l)): any order of the list.
shuffles(l) == {[i \in 1..Len(l) |-> l[p[i]]] : p \in Perms(Len(l))}

\* A slip that keeps the padded trailing group.
whole_or_padded(group) == TRUE

whole_group(group) == \A j \in 1..Len(group) : group[j] # None

grouped_list(patient_patches_list, g) ==
    LET n == Len(patient_patches_list)
        m == (n + g - 1) \div g
    IN  [b \in 1..m |->
            [j \in 1..g |->
                IF (b - 1) * g + j <= n
                THEN patient_patches_list[(b - 1) * g + j] ELSE None]]

RECURSIVE entries_of(_, _, _, _)
entries_of(class_label, patient_id, groups, g) ==
    IF Len(groups) = 0 THEN <<>>
    ELSE (IF whole_group(Head(groups))
          THEN <<[label |-> class_idx(class_label),
                  patient_id |-> [j \in 1..g |-> patient_id],
                  data_paths |-> StrJoin(<<",">>, Head(groups))]>>
          ELSE <<>>)
         \o entries_of(class_label, patient_id, Tail(groups), g)

\* The (class, patient) pairs in the order the two loops visit them.
patient_pairs(of_type) ==
    Flatten([c \in 1..Len(classes) |->
        LET ids == DictKeys(DictGet(of_type, classes[c]))
        IN  [i \in 1..Len(ids) |-> <<classes[c], ids[i]>>]])

\* Every list the loops can build, one shuffle per patient.
RECURSIVE mappings_of(_, _, _)
mappings_of(of_type, pairs, g) ==
    IF Len(pairs) = 0 THEN {<<>>}
    ELSE LET class_label == Head(pairs)[1]
             patient_id == Head(pairs)[2]
             patches == DictGet(DictGet(of_type, class_label), patient_id)
         IN  {entries_of(class_label, patient_id, grouped_list(l, g), g) \o rest :
                l \in shuffles(patches), rest \in mappings_of(of_type, Tail(pairs), g)}

\* int(og_size * subset_size) for the fraction num/den.
new_size(og_size, subset_size) == (og_size * subset_size.num) \div subset_size.den

\* random.sample(m, k): k entries at distinct positions, in any order.
samples_of(m, k) ==
    {[i \in 1..k |-> m[f[i]]] :
        f \in {h \in [1..k -> 1..Len(m)] : \A i, j \in 1..k : h[i] = h[j] => i = j}}

\* ---- the constructor
SubsetSizes == {None, [num |-> 1, den |-> 2], [num |-> 3, den |-> 2]}

DownRoots == {<<"/">>, <<"/", "i", "m", "g", "1", "/">>}

\* The k-th file of patient p.
ImgName(p, k) == S_img \o PlainName(p) \o <<"_">> \o PlainName(k) \o S_jpg

\* Files with no image id, with the letters of a set name, or with two ids.
OddNames ==
    {<<"x">> \o S_jpg,
     S_val \o <<"7">> \o S_jpg,
     S_img \o <<"1">> \o S_img \o <<"2">> \o S_jpg}

\* n files, the first a of patient 1 and the others of patient 2.
Named2(n, a) == [k \in 1..n |-> IF k <= a THEN ImgName(1, k) ELSE ImgName(2, k)]

\* Listings of well-named files, and short listings that end in an odd name.
DownFiles ==
    {[train_fish |-> Named2(n, a), train_dog |-> Named2(td, td),
      val_fish |-> Named2(vf, vf), val_dog |-> <<>>] :
        n \in 0..MaxDownPatches, a \in 0..MaxDownPatches, td \in 0..2, vf \in 0..2}
    \cup
    {[train_fish |-> Named2(n, n) \o <<o>>, train_dog |-> <<>>,
      val_fish |-> Named2(vf, vf), val_dog |-> <<>>] :
        n \in 0..1, o \in OddNames, vf \in 0..1}

InitDown ==
    /\ NoData
    /\ NoTrain
    /\ NoEval
    /\ NoMain
    /\ heap = <<>>
    /\ \E root \in DownRoots, files \in DownFiles, dataset_type \in {S_train, S_val},
          g \in 1..MaxGroupSize, subset_size \in SubsetSizes :
          /\ root # <<"/">> => Len(get_all_file_paths(root, files)) <= 1
          /\ dd = [pc |-> "make_dataset_dict",
                dataset_type |-> dataset_type,
                group_size |-> g,
                subset_size |-> subset_size,
                all_filenames |-> get_all_file_paths(root, files),
                train_dir |-> train_dir(root),
                val_dir |-> val_dir(root),
                dataset_dict_tcga |-> None,
                index_mapping |-> None]

make_dataset_dict ==
    /\ dd.pc = "make_dataset_dict"
    /\ LET r == make_dict_from(empty_data_dict, dd.all_filenames)
       IN  dd' = [dd EXCEPT !.pc = IF r.err = "" THEN "create_index_mapping" ELSE r.err,
                            !.dataset_dict_tcga = IF r.err = "" THEN r.d ELSE None]
    /\ UNCHANGED <<varsData, varsTrain, heap, ev, mr>>

create_index_mapping ==
    /\ dd.pc = "create_index_mapping"
    /\ LET of_type == DictGet(dd.dataset_dict_tcga, dd.dataset_type)
       IN  \E m \in mappings_of(of_type, patient_pairs(of_type), dd.group_size) :
             IF dd.subset_size = None
             THEN dd' = [dd EXCEPT !.pc = "done", !.index_mapping = m]
             ELSE IF new_size(Len(m), dd.subset_size) > Len(m)
             THEN dd' = [dd EXCEPT !.pc = "ValueError"]
             ELSE \E s \in samples_of(m, new_size(Len(m), dd.subset_size)) :
                    dd' = [dd EXCEPT !.pc = "done", !.index_mapping = s]
    /\ UNCHANGED <<varsData, varsTrain, heap, ev, mr>>

dataset_length == Len(dd.index_mapping)

NextDown == make_dataset_dict \/ create_index_mapping

SpecDown == InitDown /\ [][NextDown]_vars

\* --------------------------------------------------------------- C1, C2, C8
PatchesOf(image_id) == DictGet(samples, image_id)[1]

\* C1: every grouped sample is (image_id, paths, label) with paths the comma
\* join of exactly group_size patch paths of that image_id, and label the
\* label the dataset dict gives that image_id.
C1_GroupedSamplesWellFormed ==
    pc = "ready" =>
        \A s \in 1..Len(grouped_samples) :
            LET e == grouped_samples[s] IN
            /\ Len(e) = 3
            /\ DictHas(samples, e[1])
            /\ e[3] = DictGet(samples, e[1])[2]
            /\ \E f \in [1..group_size -> 1..Len(PatchesOf(e[1]))] :
                    e[2] = StrJoin(<<",">>, [j \in 1..group_size |-> PatchesOf(e[1])[f[j]]])

C1_Witness ==
    /\ pc = "ready"
    /\ group_size = 2
    /\ Len(grouped_samples) >= 3
    /\ \E i \in 1..Len(samples) : Len(samples[i].v[1]) = 3

BagPaths(i, b) ==
    SubSeq(samples[i].v[1], (b - 1) * group_size + 1, b * group_size)

BagsOfImage(i) ==
    [b \in 1..(Len(samples[i].v[1]) \div group_size) |->
        <<samples[i].k, StrJoin(<<",">>, BagPaths(i, b)), samples[i].v[2]>>]

\* C2: only the incomplete trailing bag of an image is dropped: an image
\* with n patches gives n \div g samples, which in order cover the first
\* g * (n \div g) paths of its list; no path is in two samples; the length
\* of the dataset is the sum of the n \div g (all patches when g = 1).
C2_OnlyTrailingBagDropped ==
    pc = "ready" =>
        /\ grouped_samples = Flatten([i \in 1..Len(samples) |-> BagsOfImage(i)])
        /\ \A i, j \in 1..Len(samples) :
             \A b \in 1..Len(BagsOfImage(i)), c \in 1..Len(BagsOfImage(j)) :
                <<i, b>> # <<j, c>> =>
                    Range(BagPaths(i, b)) \cap Range(BagPaths(j, c)) = {}
        /\ \A i \in 1..Len(samples) : \A b \in 1..Len(BagsOfImage(i)) :
                Cardinality(Range(BagPaths(i, b))) = group_size
        /\ dataset_len(grouped_samples)
                = SumSeq([i \in 1..Len(samples) |-> Len(samples[i].v[1]) \div group_size])
        /\ group_size = 1 =>
                dataset_len(grouped_samples)
                    = SumSeq([i \in 1..Len(samples) |-> Len(samples[i].v[1])])

C2_Witness ==
    /\ pc = "ready"
    /\ group_size = 2
    /\ \E i, j \in 1..Len(samples) :
            /\ Len(samples[i].v[1]) = 3
            /\ Len(samples[j].v[1]) = 1
            /\ Len(grouped_samples) = 1

FolderPaths(class_name, fld) ==
    [i \in 1..Len(fld.patches) |->
        root_dir \o <<"/">> \o class_name \o <<"/">> \o fld.name \o <<"/">> \o fld.patches[i]]

\* C8: the dict returned by make_dataset represents the folder: every image
\* folder under every class folder has an entry keyed by its name, holding
\* the patch paths inside that folder and the index of its class, and the k
\* class folders have the distinct indices 0..k-1.
C8_DictRepresentsFolder ==
    pc # "new" =>
        /\ \A c \in 1..Len(tree) : \A f \in 1..Len(tree[c].folders) :
              /\ DictHas(samples, tree[c].folders[f].name)
              /\ DictGet(samples, tree[c].folders[f].name)
                    = <<FolderPaths(tree[c].name, tree[c].folders[f]),
                        DictGet(class_to_idx, tree[c].name)>>
        /\ {class_to_idx[i].v : i \in 1..Len(class_to_idx)} = 0..(Len(tree) - 1)
        /\ Len(class_to_idx) = Len(tree)

\* ------------------------------------------------------------ C3, C4, C5
Classes == 0..(NumClasses - 1)

ScoredIdx(inner) == {j \in 1..Len(inner) : inner[j].v # None}

RECURSIVE SumOver(_, _, _)
SumOver(inner, J, c) ==
    IF J = {} THEN 0
    ELSE LET j == CHOOSE x \in J : TRUE
         IN  inner[j].v[c + 1] + SumOver(inner, J \ {j}, c)

PatchVote(v, c) ==
    /\ \A e \in Classes : v[c + 1] >= v[e + 1]
    /\ \A e \in Classes : e < c => v[e + 1] < v[c + 1]

VotesFor(inner, c) == Cardinality({j \in ScoredIdx(inner) : PatchVote(inner[j].v, c)})

\* raw and maj are accuracies score_dict may return for the dicts d, smp.
AccuraciesOf(raw, maj, d, smp) ==
    \E pr, pm \in [1..Len(smp) -> Classes] :
        /\ \A i \in 1..Len(smp) :
             LET inner == DictGet(d, smp[i].k) IN
             /\ ScoredIdx(inner) # {}
             /\ \A e \in Classes :
                    SumOver(inner, ScoredIdx(inner), pr[i])
                        >= SumOver(inner, ScoredIdx(inner), e)
             /\ \A e \in Classes : VotesFor(inner, pm[i]) >= VotesFor(inner, e)
        /\ raw = <<Cardinality({i \in 1..Len(smp) : pr[i] = smp[i].v[2]}), Len(smp)>>
        /\ maj = <<Cardinality({i \in 1..Len(smp) : pm[i] = smp[i].v[2]}), Len(smp)>>

\* C3: the accuracies logged at an epoch end are, over every image id of the
\* samples dict, the fraction of images whose label equals the class of the
\* largest component of the sum of the image's non-None patch scores
\* (raw sum), and the class most patches have as argmax (majority vote).
C3_ScoreDictAggregates ==
    [][log' # <<>> =>
        /\ AccuraciesOf(log'.train_rawsum_acc, log'.train_majority_vote_acc,
                        heap[cb.train_img_samples_score_dict], cb.train_samples_dict)
        /\ AccuraciesOf(log'.val_rawsum_acc, log'.val_majority_vote_acc,
                        heap[cb.val_img_samples_score_dict], cb.val_samples_dict)]_vars

C3_Witness ==
    /\ log # <<>>
    /\ log.val_rawsum_acc = <<2, 2>>
    /\ log.val_majority_vote_acc = <<1, 2>>
    /\ Len(dm.val_ds.grouped_samples) = 4
    /\ Len(dm.val_ds.samples[1].v[1]) = 6

AllNone(d, smp) ==
    /\ DictKeys(d) = DictKeys(smp)
    /\ \A i \in 1..Len(smp) :
          /\ DictKeys(d[i].v) = smp[i].v[1]
          /\ \A j \in 1..Len(d[i].v) : d[i].v[j].v = None

Recorded(d) ==
    UNION {{<<d[i].k, d[i].v[j].k, d[i].v[j].v>> : j \in ScoredIdx(d[i].v)} :
            i \in 1..Len(d)}

\* C4: after on_validation_epoch_end returns, sanity checking or not, every
\* entry of both score dicts is None; so at any time the dicts hold exactly
\* the scores recorded since the previous on_validation_epoch_end.
C4_EpochEndClearsDicts ==
    trainer.phase \in {"sanity", "train", "val", "done"} =>
        /\ trainer.last = "epoch_end" =>
              /\ AllNone(heap[cb.train_img_samples_score_dict], dm.train_ds.samples)
              /\ AllNone(heap[cb.val_img_samples_score_dict], dm.val_ds.samples)
        /\ Recorded(heap[cb.train_img_samples_score_dict]) = since.train
        /\ Recorded(heap[cb.val_img_samples_score_dict]) = since.val

C4_Witness ==
    /\ trainer.phase = "done"
    /\ trainer.last = "epoch_end"
    /\ log # <<>>
    /\ Len(dm.val_ds.grouped_samples) = 4

LastOf(ids, paths, k) ==
    CHOOSE j \in k..Len(ids) :
        /\ ids[j] = ids[k] /\ paths[j] = paths[k]
        /\ \A m \in (j + 1)..Len(ids) : ~(ids[m] = ids[k] /\ paths[m] = paths[k])

Named(ids, paths, img, path) == \E k \in 1..Len(ids) : ids[k] = img /\ paths[k] = path

\* C5: a call of update_dicts with four sequences of one length leaves
\* dict[img_id_k][path_k] = score_k for every k (the last k of a repeated
\* pair), every other entry of that dict as it was, and the other score
\* dict and both samples dicts unchanged.
C5_UpdateDictsFrame ==
    [][call'.ok =>
        LET d0 == heap[call'.ref]
            d1 == heap'[call'.ref]
            ids == call'.ids
            paths == call'.paths
        IN  /\ Len(ids) = Len(paths) /\ Len(ids) = Len(call'.scores)
            /\ \A k \in 1..Len(ids) :
                  /\ DictHas(d1, ids[k])
                  /\ DictHas(DictGet(d1, ids[k]), paths[k])
                  /\ DictGet(DictGet(d1, ids[k]), paths[k])
                        = call'.scores[LastOf(ids, paths, k)]
            /\ DictKeys(d1) = DictKeys(d0)
            /\ \A i \in 1..Len(d0) :
                  /\ \A j \in 1..Len(d0[i].v) :
                        ~Named(ids, paths, d0[i].k, d0[i].v[j].k) => d1[i].v[j] = d0[i].v[j]
                  /\ \A j \in 1..Len(d1[i].v) :
                        ~Named(ids, paths, d1[i].k, d1[i].v[j].k) => d1[i].v[j] \in Range(d0[i].v)
            /\ DOMAIN heap' = DOMAIN heap
            /\ \A r \in DOMAIN heap : r # call'.ref => heap'[r] = heap[r]
            /\ cb' = cb
            /\ dm' = dm]_vars

C5_Witness ==
    /\ call.ok
    /\ Len(call.ids) = 2
    /\ call.ids[1] = call.ids[2] /\ call.paths[1] = call.paths[2]
    /\ call.scores[1] # call.scores[2]
    /\ \E r \in DOMAIN heap : r # call.ref /\ Recorded(heap[r]) # {}
    /\ \E t \in Recorded(heap[call.ref]) : ~Named(call.ids, call.paths, t[1], t[2])

\* ---------------------------------------------------------------------- C6
RECURSIVE SigmoidSum(_, _, _)
SigmoidSum(inner, J, c) ==
    IF J = {} THEN 0
    ELSE LET j == CHOOSE x \in J : TRUE
         IN  Sigmoid1(inner[j].v[c]) + SigmoidSum(inner, J \ {j}, c)

ImagePred(inner) ==
    [sum |-> [c \in 1..Len(inner[CHOOSE j \in ScoredIdx(inner) : TRUE].v) |->
                SigmoidSum(inner, ScoredIdx(inner), c)],
     n |-> Cardinality(ScoredIdx(inner))]

\* C6: get_roc_image_level hands to ROC exactly one prediction and one label
\* per image id of the score dict, in the order of the dict; the prediction
\* is the mean of the sigmoid of the image's scores that are not None, the
\* label is samples_dict_gt[img_id][1].
C6_ImageLevelLists ==
    \A i \in 1..Len(ev.record) :
        LET r == ev.record[i]
            d == heap[r.val_img_samples_score_dict]
        IN  /\ Len(r.img_preds) = Len(d)
            /\ Len(r.img_y_gt) = Len(d)
            /\ \A k \in 1..Len(d) :
                  /\ ScoredIdx(d[k].v) # {}
                  /\ r.img_preds[k] = ImagePred(d[k].v)
                  /\ r.img_y_gt[k] = DictGet(dm.val_ds.samples, d[k].k)[2]

\* Two images, one of them with an entry left None and with two scores that
\* differ.
C6_Witness ==
    /\ ev.pc = "done"
    /\ \E i \in 1..Len(ev.record) :
          LET d == heap[ev.record[i].val_img_samples_score_dict]
          IN  /\ Len(d) = 2
              /\ \E k \in 1..Len(d) :
                    /\ \E j \in 1..Len(d[k].v) : d[k].v[j].v = None
                    /\ \E j1, j2 \in ScoredIdx(d[k].v) : d[k].v[j1].v # d[k].v[j2].v

\* ---------------------------------------------------------------------- C9
\* C9: every call of get_img_samples_score_dict returns a dict that no
\* earlier call returned, with an entry None for every patch of every image
\* in samples; writing scores into a returned dict changes no other dict
\* and not the samples of the dataset.
C9_FreshScoreDict ==
    [][/\ ev.pc = "next" =>
            /\ ev'.cur \notin DOMAIN heap
            /\ AllNone(heap'[ev'.cur], dm.val_ds.samples)
            /\ \A r \in DOMAIN heap : heap'[r] = heap[r]
       /\ ev.pc = "dicts" =>
            /\ DOMAIN heap' = DOMAIN heap
            /\ \A r \in DOMAIN heap : r # ev.cur => heap'[r] = heap[r]
       /\ dm'.val_ds.samples = dm.val_ds.samples
       /\ ev.pc = "dicts" => ev'.val_samples_gt_dict = dm.val_ds.samples]_vars

\* Two checkpoints done: their dicts hold different scores for a patch, and
\* a patch that is in no bag is None in both.
C9_Witness ==
    /\ ev.pc = "done"
    /\ Len(ev.record) = 2
    /\ LET d1 == heap[ev.record[1].val_img_samples_score_dict]
           d2 == heap[ev.record[2].val_img_samples_score_dict]
       IN  /\ DictKeys(d1) = DictKeys(d2)
           /\ \A k \in 1..Len(d1) : DictKeys(d1[k].v) = DictKeys(d2[k].v)
           /\ \E k \in 1..Len(d1) : \E j \in 1..Len(d1[k].v) :
                 /\ d1[k].v[j].v # None
                 /\ d2[k].v[j].v # None
                 /\ d1[k].v[j].v # d2[k].v[j].v
           /\ \E k \in 1..Len(d1) : \E j \in 1..Len(d1[k].v) :
                 /\ d1[k].v[j].v = None
                 /\ d2[k].v[j].v = None
                 /\ "," \notin Range(d1[k].v[j].k)
                 /\ \A b \in 1..Len(dm.val_ds.grouped_samples) :
                       d1[k].v[j].k \notin Range(StrSplit(dm.val_ds.grouped_samples[b][2], ","))

\* ----------------------------------------------------------------- C7, C10
Ended == {"AssertionError", "TypeError", "returned"}

LoopOver == mr.pc = "returned" \/ (mr.pc = "zip" /\ mr.k >= Len(mr.models))

CurvesOf(level, k) == [j \in 1..mr.models[k] |-> roc_of(level, <<k, j - 1>>)]

AveragedOver(rec, level, k) ==
    LET all == CurvesOf(level, k)
        grid == linspace(0, 1, GridPoints)
        interp == [j \in 1..Len(all) |-> np_interp(grid, all[j].fpr, all[j].tpr)]
        aucs == [j \in 1..Len(all) |-> all[j].auc]
    IN  /\ DictHas(rec, <<"all_interp_tpr", level>>)
        /\ DictGet(rec, <<"all_interp_tpr", level>>) = interp
        /\ DictGet(rec, <<"avg_interp_tpr", level>>) = np_mean(interp)
        /\ DictGet(rec, <<"std_tpr", level>>) = np_std(interp)
        /\ DictGet(rec, <<"avg_auc", level>>) = np_mean(aucs)
        /\ DictGet(rec, <<"std_auc", level>>) = np_std(aucs)

\* C7: make_roc_main called with a name and a datamodule for every group,
\* the names all different, comes to the end of its loop, and then for each
\* model name the record holds num_models equal to the number of checkpoints
\* of the group, and at both levels one curve interpolated on the grid of
\* 100 points per checkpoint with the mean and the standard deviation over
\* exactly those curves and over the aucs of those checkpoints.
C7_AveragesOverCheckpoints ==
    (/\ mr.pc \in Ended \/ LoopOver
     /\ Len(mr.models) = Len(mr.model_names)
     /\ Len(mr.models) = Len(mr.dms)
     /\ NoDup(mr.model_names))
    => /\ LoopOver
       /\ \A k \in 1..Len(mr.model_names) :
             /\ DictHas(mr.record_dict, mr.model_names[k])
             /\ LET rec == DictGet(mr.record_dict, mr.model_names[k])
                IN  /\ DictHas(rec, <<"num_models">>)
                    /\ DictGet(rec, <<"num_models">>) = mr.models[k]
                    /\ AveragedOver(rec, "sample", k)
                    /\ AveragedOver(rec, "img", k)

\* C10: make_roc_main with len(models) # len(model_names) fails with an
\* assertion error before any datamodule is set up or any model evaluated;
\* otherwise it evaluates the k-th group under the k-th name with the k-th
\* datamodule and record_dict ends with one entry per given model name.
C10_GroupsNamedInOrder ==
    /\ Len(mr.models) # Len(mr.model_names) =>
          /\ mr.pc \in {"start", "AssertionError"}
          /\ mr.setups = <<>>
          /\ mr.evaluated = <<>>
    /\ (Len(mr.models) = Len(mr.model_names) /\ (mr.pc \in Ended \/ LoopOver)) =>
          /\ mr.pc \notin {"AssertionError", "TypeError"}
          /\ Range(DictKeys(mr.record_dict)) = Range(mr.model_names)
          /\ \A k \in 1..Len(mr.models) : \A j \in 1..mr.models[k] :
                \E e \in 1..Len(mr.evaluated) :
                    /\ mr.evaluated[e] = [model |-> <<k, j - 1>>,
                                          name |-> mr.model_names[k], dm |-> k]
                    /\ mr.setups[e] = mr.dms[k]

\* --------------------------------------------------------------------- C11
HasPrefix(s, pre) == Len(pre) <= Len(s) /\ SubSeq(s, 1, Len(pre)) = pre

DirOf(dataset_type) == IF dataset_type = S_train THEN dd.train_dir ELSE dd.val_dir

OtherType(dataset_type) == IF dataset_type = S_train THEN S_val ELSE S_train

\* The patches the dict holds for a patient of a class of a set; none when
\* the dict has no such patient.
PatchesFiled(dataset_type, class_label, patient_id) ==
    LET of_class == DictGet(DictGet(dd.dataset_dict_tcga, dataset_type), class_label)
    IN  IF DictHas(of_class, patient_id) THEN DictGet(of_class, patient_id) ELSE <<>>

PatientsOf(dataset_type, class_label) ==
    Range(DictKeys(DictGet(DictGet(dd.dataset_dict_tcga, dataset_type), class_label)))

AllFiled(dataset_type) ==
    UNION {UNION {Range(PatchesFiled(dataset_type, classes[c], id)) :
                    id \in PatientsOf(dataset_type, classes[c])} :
             c \in 1..Len(classes)}

\* The ways to read an entry as group_size patches of the patient it names.
GroupsOf(e) ==
    IF e.label \notin 0..(Len(classes) - 1) \/ Len(e.patient_id) = 0 THEN {}
    ELSE {grp \in [1..dd.group_size ->
                      Range(PatchesFiled(dd.dataset_type, classes[e.label + 1],
                                         e.patient_id[1]))] :
            StrJoin(<<",">>, grp) = e.data_paths}

EntriesOf(class_label, patient_id) ==
    {i \in 1..Len(dd.index_mapping) :
        /\ dd.index_mapping[i].label = class_idx(class_label)
        /\ dd.index_mapping[i].patient_id[1] = patient_id}

IsImgId(s) ==
    /\ Len(s) > Len(S_img)
    /\ SubSeq(s, 1, Len(S_img)) = S_img
    /\ \A i \in (Len(S_img) + 1)..Len(s) : s[i] \in ultimate_re[3].plus

\* C12: whatever make_dataset_dict has filed, it has filed right: a path
\* under data_dict[set][class][patient] lies in that set's directory and
\* that class folder, and the key it is filed under is the image id of the
\* path, never another match of the expression.
C12_PathsFiledRight ==
    dd.pc \in {"create_index_mapping", "done", "ValueError"} =>
        \A t \in {S_train, S_val} :
          \A c \in 1..Len(classes) :
            \A id \in PatientsOf(t, classes[c]) :
              \A path \in Range(PatchesFiled(t, classes[c], id)) :
                 /\ HasPrefix(path, DirOf(t) \o <<"/">> \o classes[c] \o <<"/">>)
                 /\ IsImgId(id)

\* --------------------------------------------------------------------- C13
\* What MyResNet.get_preds hands back for a patch: the sigmoid of an output
\* of the network.
SigmoidedOnce == {sigmoid(Logits("MyResNet", high)) : high \in BOOLEAN}

RECURSIVE ScoreSum(_, _, _)
ScoreSum(inner, J, c) ==
    IF J = {} THEN 0
    ELSE LET j == CHOOSE x \in J : TRUE
         IN  inner[j].v[c] + ScoreSum(inner, J \ {j}, c)

\* C13: for a checkpoint evaluated through MyResNet.get_preds, the score a
\* patch has in the score dict is the sigmoid of its network output, and the
\* image-level prediction is the mean of these scores as they are: between
\* the forward pass and the mean the output passes through one sigmoid.
C13_SigmoidOnce ==
    ev.pc # "off" /\ ev.kind = "MyResNet" =>
        \A i \in 1..Len(ev.record) :
            LET r == ev.record[i]
                d == heap[r.val_img_samples_score_dict]
            IN  \A k \in 1..Len(d) :
                   /\ \A j \in ScoredIdx(d[k].v) : d[k].v[j].v \in SigmoidedOnce
                   /\ r.img_preds[k] =
                         [sum |-> [c \in 1..NumClasses |->
                                     ScoreSum(d[k].v, ScoredIdx(d[k].v), c)],
                          n |-> Cardinality(ScoredIdx(d[k].v))]

====
